---- MODULE Spec2Model ----
(***************************************************************************)
(* Sentence embeddings with Siamese RoBERTa networks                       *)
(* (examples/nlp/ipynb/sentence_embeddings_with_sbert.ipynb).              *)
(*                                                                         *)
(* Numbers are fixed-point: the integer n stands for n / Scale.  A product *)
(* of two numbers is kept at the double resolution 1 / Scale^2 until it is *)
(* reduced; a division and a square root round their result down to the    *)
(* grid, as the finite-precision arithmetic of the notebook rounds to its  *)
(* own.  A division 0 / 0 yields NaN, which every later operation keeps.   *)
(***************************************************************************)
EXTENDS Integers, Sequences, FiniteSets, TLC

\* ------------------------------------------------------------- bounds
MaxWords == 3
MaxBatch == 2
MaxSteps == 2

\* --------------------------------------------------------- arithmetic
Scale == 100

NaN == 0 - (Scale * Scale * Scale)

One == 1 * Scale

IsNaN(a) == a = NaN

Add(a, b) == IF IsNaN(a) \/ IsNaN(b) THEN NaN ELSE a + b

Sub(a, b) == IF IsNaN(a) \/ IsNaN(b) THEN NaN ELSE a - b

\* a * b, rounded down to the grid
Mul(a, b) == IF IsNaN(a) \/ IsNaN(b) THEN NaN ELSE (a * b) \div Scale

\* a / b, rounded down to the grid; x / 0 is not a number
Div(a, b) == IF IsNaN(a) \/ IsNaN(b) \/ b = 0 THEN NaN ELSE (a * Scale) \div b

RECURSIVE SqrtSearch(_, _, _)
SqrtSearch(n, lo, hi) ==
    IF lo >= hi THEN lo
    ELSE LET mid == (lo + hi + 1) \div 2
         IN  IF mid * mid <= n THEN SqrtSearch(n, mid, hi)
                               ELSE SqrtSearch(n, lo, mid - 1)

\* square root of n / Scale^2, rounded down to the grid
Sqrt(n) == IF IsNaN(n) \/ n < 0 THEN NaN ELSE SqrtSearch(n, 0, n)

RECURSIVE SeqSum(_)
SeqSum(s) == IF s = <<>> THEN 0 ELSE Add(Head(s), SeqSum(Tail(s)))

\* the components of a hidden vector
Dims == {1, 2}

VecSub(a, b) == [d \in Dims |-> Sub(a[d], b[d])]

\* sum of the squares of the components, at resolution 1 / Scale^2
SumSq(a) == SeqSum([d \in 1..Cardinality(Dims) |-> IF IsNaN(a[d]) THEN NaN ELSE a[d] * a[d]])

\* dot product, rounded down to the grid
Dot(a, b) ==
    LET p == SeqSum([d \in 1..Cardinality(Dims) |-> IF IsNaN(a[d]) \/ IsNaN(b[d]) THEN NaN ELSE a[d] * b[d]])
    IN  IF IsNaN(p) THEN NaN ELSE p \div Scale

\* ------------------------------------------------------------ encoder
\* the vocabulary: the special tokens of the preprocessor and two words
Words == {"w1", "w2"}

TokenIds == {"<s>", "<pad>", "</s>"} \cup Words

\* the sentences fed to an encoder: up to MaxWords words
Sentences == UNION {[1..n -> Words] : n \in 0..MaxWords}

\* sequence_length of the preprocessor: the longest sentence is truncated
SeqLen == MaxWords + 1

Positions == 1..SeqLen

\* a hidden vector of the backbone: each component is -1.0 or 1.0
Vec == [Dims -> {0 - One, One}]

\* the parameters of a backbone: the hidden vector it gives each token
Weights == [TokenIds -> Vec]

\* a preprocessor that packs the words without <s> and </s>
PreprocessorNoSpecial(s) ==
    LET kept == IF Len(s) > SeqLen THEN SubSeq(s, 1, SeqLen) ELSE s
        ids  == [p \in Positions |-> IF p <= Len(kept) THEN kept[p] ELSE "<pad>"]
    IN  [token_ids |-> ids,
         padding_mask |-> [p \in Positions |-> ids[p] # "<pad>"]]

\* x = preprocessor(inputs): <s> words </s> <pad>..., truncated to SeqLen
Preprocessor(s) ==
    LET kept == IF Len(s) > SeqLen - 2 THEN SubSeq(s, 1, SeqLen - 2) ELSE s
        toks == <<"<s>">> \o kept \o <<"</s>">>
        ids  == [p \in Positions |-> IF p <= Len(toks) THEN toks[p] ELSE "<pad>"]
    IN  [token_ids |-> ids,
         padding_mask |-> [p \in Positions |-> ids[p] # "<pad>"]]

\* h = backbone(x): one hidden vector per position, padded ones included
Backbone(w, x) == [p \in Positions |-> w[x.token_ids[p]]]

\* the mask as numbers: 1.0 where a token is present, 0.0 on padding
MaskCast(mask) == [p \in Positions |-> IF mask[p] THEN One ELSE 0]

\* the divisor of the mean: reduce_sum(mask, axis=steps)
MaskSum(mask) == SeqSum(MaskCast(mask))

\* GlobalAveragePooling1D called without the mask: the mean over every position
PoolingNoMask(hh, mask) ==
    [d \in Dims |-> Div(SeqSum([p \in Positions |-> hh[p][d]]), SeqLen * One)]

\* GlobalAveragePooling1D(h, padding_mask): inputs *= mask;
\* sum(inputs, axis=steps) / sum(mask, axis=steps)
GlobalAveragePooling1D(hh, mask) ==
    [d \in Dims |->
        Div(SeqSum([p \in Positions |-> Mul(hh[p][d], MaskCast(mask)[p])]),
            MaskSum(mask))]

\* an encoder output that is not normalized
NormalizeNone(e) == e

\* a normalization by the sum of the absolute values of the components
NormalizeL1(e) ==
    [d \in Dims |-> Div(e[d], SeqSum([c \in 1..Cardinality(Dims) |->
                                        IF e[c] < 0 THEN 0 - e[c] ELSE e[c]]))]

\* tf.linalg.normalize(embedding, axis=1)[0]: embedding / norm(embedding)
Normalize(e) == [d \in Dims |-> Div(e[d], Sqrt(SumSq(e)))]

\* roberta_encoder: preprocessor, backbone, masked mean pooling
RobertaEncoder(w, s) ==
    LET x == Preprocessor(s)
    IN  GlobalAveragePooling1D(Backbone(w, x), x.padding_mask)

\* roberta_normal_encoder: the same, followed by the normalization
RobertaNormalEncoder(w, s) == Normalize(RobertaEncoder(w, s))

Encoders == {"roberta_normal_encoder", "roberta_encoder"}

\* one backbone object behind both encoders of the notebook
BackboneShared(e) == "backbone"

\* backbone = keras_nlp.models.RobertaBackbone.from_preset("roberta_base_en"),
\* called once in the cell of each encoder: the backbone object that the
\* graph of encoder e runs, a new object at each call
BackboneOf(e) ==
    IF e = "roberta_normal_encoder" THEN "backbone_normal_encoder" ELSE "backbone_encoder"

\* ------------------------------------------------- triplet objective
\* the sentences of the datasets
Corpus == {<<"w1">>, <<"w2", "w2">>}

\* a backbone setting: the hidden vectors of <s>, </s>, w1, w2 and <pad>
Table(bos, eos, w1, w2, pad) ==
    [t \in TokenIds |->
        CASE t = "<s>" -> bos [] t = "</s>" -> eos
          [] t = "w1" -> w1 [] t = "w2" -> w2 [] OTHER -> pad]

\* from_preset("roberta_base_en"): the parameters a backbone is loaded with
Pretrained ==
    Table(<<One, One>>, <<0 - One, 0 - One>>, <<One, One>>, <<0 - One, One>>, <<One, 0 - One>>)

\* parameter settings of a backbone, as loaded and as reached in training:
\* the two sentences of the corpus get orthogonal, oblique and opposite
\* embeddings, and in the last setting one of them the zero embedding
Checkpoints == {
    Pretrained,
    Table(<<One, One>>, <<One, 0 - One>>, <<One, One>>, <<0 - One, One>>, <<0 - One, 0 - One>>),
    Table(<<One, One>>, <<0 - One, 0 - One>>, <<One, One>>, <<0 - One, 0 - One>>, <<0 - One, One>>),
    Table(<<One, One>>, <<One, One>>, <<0 - One, One>>, <<0 - One, 0 - One>>, <<One, One>>) }

\* batches of 1..MaxBatch examples drawn from a set
Batches(S) == UNION {[1..n -> S] : n \in 1..MaxBatch}

Triplets == [anchor : Corpus, positive : Corpus, negative : Corpus]

\* sqrt(reduce_sum(pow(a - b, 2), axis=1))
Distance(a, b) == Sqrt(SumSq(VecSub(a, b)))

\* TripletSiamese with the two distances stacked in the other order
TripletSiameseSwapped(w, batch) ==
    LET ea == [i \in DOMAIN batch |-> RobertaEncoder(w, batch[i].anchor)]
        ep == [i \in DOMAIN batch |-> RobertaEncoder(w, batch[i].positive)]
        en == [i \in DOMAIN batch |-> RobertaEncoder(w, batch[i].negative)]
    IN  << [i \in DOMAIN batch |-> Distance(ea[i], en[i])],
           [i \in DOMAIN batch |-> Distance(ea[i], ep[i])] >>

\* a TripletSiamese whose positive distance is taken between the positive
\* and the negative embedding
TripletDistancesNoAnchor(wa, wp, wn, batch) ==
    LET ea == [i \in DOMAIN batch |-> RobertaEncoder(wa, batch[i].anchor)]
        ep == [i \in DOMAIN batch |-> RobertaEncoder(wp, batch[i].positive)]
        en == [i \in DOMAIN batch |-> RobertaEncoder(wn, batch[i].negative)]
    IN  << [i \in DOMAIN batch |-> Distance(ep[i], en[i])],
           [i \in DOMAIN batch |-> Distance(ea[i], en[i])] >>

\* the graph of TripletSiamese evaluated with the parameters wa, wp, wn of
\* the encoders on the anchor, positive and negative paths:
\* output = stack([positive_dist, negative_dist], axis=0)
TripletDistances(wa, wp, wn, batch) ==
    LET ea == [i \in DOMAIN batch |-> RobertaEncoder(wa, batch[i].anchor)]
        ep == [i \in DOMAIN batch |-> RobertaEncoder(wp, batch[i].positive)]
        en == [i \in DOMAIN batch |-> RobertaEncoder(wn, batch[i].negative)]
        positive_dist == [i \in DOMAIN batch |-> Distance(ea[i], ep[i])]
        negative_dist == [i \in DOMAIN batch |-> Distance(ea[i], en[i])]
    IN  <<positive_dist, negative_dist>>

\* TripletSiamese: ea = encoder(anchor); ep = encoder(positive);
\* en = encoder(negative), one encoder with parameters w
TripletSiamese(w, batch) == TripletDistances(w, w, w, batch)

\* TripletSiamese.__init__(encoder): the encoder object called on each of
\* the three paths, and self.encoder
TripletSiameseInit(enc) ==
    [paths |-> <<enc, enc, enc>>, encoder |-> enc]

\* the margins a TripletLoss is constructed with
Margins == {0 - One, One \div 4, 2 * One}

\* TripletLoss(...): with a margin argument or without
LossArgs == {[given |-> FALSE, margin |-> 0]} \cup [given : {TRUE}, margin : Margins]

\* def __init__(self, margin=1, **kwargs)
DefaultMargin == 1 * Scale

TripletLossInit(arg) == IF arg.given THEN arg.margin ELSE DefaultMargin

\* a relu that lets negative values through
ReluLinear(a) == a

\* tf.nn.relu
Relu(a) == IF IsNaN(a) THEN NaN ELSE IF a > 0 THEN a ELSE 0

\* the per-example losses without the margin
TripletLossesNoMargin(m, pred) ==
    [i \in DOMAIN pred[1] |-> Relu(Sub(pred[1][i], pred[2][i]))]

\* positive_dist, negative_dist = tf.unstack(y_pred, axis=0)
\* losses = tf.nn.relu(positive_dist - negative_dist + self.margin)
TripletLosses(m, pred) ==
    LET positive_dist == pred[1]
        negative_dist == pred[2]
    IN  [i \in DOMAIN positive_dist |->
            Relu(Add(Sub(positive_dist[i], negative_dist[i]), m))]

\* tf.math.reduce_mean(losses, axis=0)
ReduceMean(s) == Div(SeqSum(s), Len(s) * One)

\* a TripletLoss.call that adds the labels to the per-example losses
TripletLossCallWithLabels(m, true, pred) ==
    ReduceMean([i \in DOMAIN pred[1] |-> Add(TripletLosses(m, pred)[i], true[i])])

\* def call(self, y_true, y_pred): y_true is not read
TripletLossCall(m, true, pred) == ReduceMean(TripletLosses(m, pred))

\* ---------------------------------------------- regression objective
\* the labels of STSB lie in [0, 5]
MaxLabel == 5 * Scale

\* the number 2.5
TwoAndHalf == (5 * Scale) \div 2

\* a rescaling that divides by 2.5 and forgets to subtract 1
ChangeRangeNoShift(a) == Div(a, TwoAndHalf)

\* def change_range(x): return (x / 2.5) - 1
change_range(a) == Sub(Div(a, TwoAndHalf), One)

\* the examples of the similarity dataset used in batches
Pairs == [sentence1 : Corpus, sentence2 : Corpus, label : {0, TwoAndHalf, MaxLabel}]

\* prepare_dataset: z -> ([sentence1, sentence2], [change_range(label)])
PrepareExample(z) ==
    [sentences |-> <<z.sentence1, z.sentence2>>, target |-> <<change_range(z.label)>>]

\* the graph of RegressionSiamese evaluated with the parameters wu, wv of
\* the encoders on the two paths: sen1, sen2 = tf.split(inputs, 2, axis=1);
\* cosine_similarity_scores = tf.matmul(u, tf.transpose(v))
RegressionScores(wu, wv, sentences) ==
    LET u == [i \in DOMAIN sentences |-> RobertaNormalEncoder(wu, sentences[i][1])]
        v == [i \in DOMAIN sentences |-> RobertaNormalEncoder(wv, sentences[i][2])]
    IN  [i \in DOMAIN sentences |-> [j \in DOMAIN sentences |-> Dot(u[i], v[j])]]

\* RegressionSiamese: u = encoder(sen1); v = encoder(sen2), one encoder
\* with parameters w
RegressionSiamese(w, sentences) == RegressionScores(w, w, sentences)

\* a RegressionSiamese that encodes the second sentence with the other
\* encoder of the notebook
RegressionSiameseTwoEncoders(enc) ==
    [paths |-> <<enc, CHOOSE e \in Encoders : e # enc>>, encoder |-> enc]

\* RegressionSiamese.__init__(encoder): the encoder object called on each
\* of the two paths, and self.encoder
RegressionSiameseInit(enc) ==
    [paths |-> <<enc, enc>>, encoder |-> enc]

\* def get_encoder(self): return self.encoder
get_encoder(m) == m.encoder

\* tf.math.squared_difference
SquaredDifference(a, b) == Mul(Sub(a, b), Sub(a, b))

\* keras.losses.MeanSquaredError: mean(squared_difference(y_pred, y_true),
\* axis=-1) with y_true broadcast along the last axis, then the mean over
\* the batch
MeanSquaredError(true, pred) ==
    ReduceMean([i \in DOMAIN pred |->
        ReduceMean([j \in DOMAIN pred[i] |->
            SquaredDifference(pred[i][j],
                              IF Len(true[i]) = 1 THEN true[i][1] ELSE true[i][j])])])

\* ---------------------------------------------- semantic search
\* the sentences of the corpus and the query of a search
SearchSentences == Corpus \cup {<<"w1", "w2">>}

\* the number of sentences of the corpus of a search
SearchCorpusSize == 3

\* tf.matmul(a, tf.transpose(b))
MatmulTranspose(a, b) ==
    [i \in DOMAIN a |-> [j \in DOMAIN b |-> Dot(a[i], b[j])]]

\* sentence_embeddings = encoder(tf.constant(sentences));
\* query_embedding = encoder(tf.constant(query));
\* cosine_simalarities = tf.matmul(query_embedding, tf.transpose(sentence_embeddings))
SearchScores(w, sents, q) ==
    LET sentence_embeddings == [i \in DOMAIN sents |-> RobertaNormalEncoder(w, sents[i])]
        query_embedding == [i \in DOMAIN q |-> RobertaNormalEncoder(w, q[i])]
    IN  MatmulTranspose(query_embedding, sentence_embeddings)

\* for i, sim in enumerate(cosine_simalarities[0]): print(... {i+1} ... {sim})
SearchPrint(cosine) ==
    [i \in DOMAIN cosine[1] |-> [sentence |-> i, sim |-> cosine[1][i]]]

\* ---------------------------------------------- training
Min(a, b) == IF a <= b THEN a ELSE b

\* dataset.batch(batch_size): consecutive batches, the last one possibly short
Batch(dataset, batch_size) ==
    [k \in 1..((Len(dataset) + batch_size - 1) \div batch_size) |->
        SubSeq(dataset, (k - 1) * batch_size + 1, Min(k * batch_size, Len(dataset)))]

\* dataset.take(num_batchs)
Take(dataset, num_batchs) == SubSeq(dataset, 1, Min(num_batchs, Len(dataset)))

\* def prepare_dataset(dataset, num_batchs, batch_size)
prepare_dataset(dataset, num_batchs, batch_size) ==
    Take(Batch([i \in DOMAIN dataset |-> PrepareExample(dataset[i])], batch_size),
         num_batchs)

\* the first examples of stsb_ds["train"]
StsbExamples ==
    << [sentence1 |-> <<"w1">>, sentence2 |-> <<"w1">>, label |-> MaxLabel],
       [sentence1 |-> <<"w1">>, sentence2 |-> <<"w2", "w2">>, label |-> 0],
       [sentence1 |-> <<"w2", "w2">>, sentence2 |-> <<"w1">>, label |-> TwoAndHalf],
       [sentence1 |-> <<"w2", "w2">>, sentence2 |-> <<"w2", "w2">>, label |-> MaxLabel],
       [sentence1 |-> <<"w1">>, sentence2 |-> <<"w2", "w2">>, label |-> One] >>

\* stsb_train = prepare_dataset(stsb_train, TRAIN_NUM_BATCHS, TRAIN_BATCH_SIZE)
stsb_train == prepare_dataset(StsbExamples, MaxSteps, MaxBatch)

\* the rows a wikipedia-sections-triplets csv file repeats
WikiExamples ==
    << [anchor |-> <<"w1">>, positive |-> <<"w1">>, negative |-> <<"w2", "w2">>],
       [anchor |-> <<"w2", "w2">>, positive |-> <<"w1">>, negative |-> <<"w2", "w2">>],
       [anchor |-> <<"w1">>, positive |-> <<"w2", "w2">>, negative |-> <<"w2", "w2">>],
       [anchor |-> <<"w2", "w2">>, positive |-> <<"w2", "w2">>, negative |-> <<"w1">>],
       [anchor |-> <<"w1">>, positive |-> <<"w1">>, negative |-> <<"w1">>] >>

\* make_csv_dataset(file, batch_size=1, num_epochs=1) of a file of n rows
WikiCsv(n) == [i \in 1..n |-> WikiExamples[((i - 1) % Len(WikiExamples)) + 1]]

\* dataset.batch(6)
WIKI_BATCH_SIZE == 6

NUM_TRAIN_BATCHS == 200

NUM_TEST_BATCHS == 75

\* def prepare_wiki_data(dataset, num_batchs): map to (triplet, 0), batch, take
prepare_wiki_data(dataset, num_batchs) ==
    Take(Batch([i \in DOMAIN dataset |-> [triplet |-> dataset[i], label |-> 0]],
               WIKI_BATCH_SIZE),
         num_batchs)

\* the rows of train.csv the training of the model reads
WikiTrainRows == 2 * WIKI_BATCH_SIZE + 1

\* wiki_train = prepare_wiki_data(wiki_train, NUM_TRAIN_BATCHS)
wiki_train == prepare_wiki_data(WikiCsv(WikiTrainRows), MaxSteps)

\* the number of rows of the csv files: short files, and files around and
\* beyond the numbers of rows the two preparations take
WikiSizes ==
    0..40 \cup {449, 450, 451, 1199, 1200, 1201, 1500}

\* the number of batches each split is prepared with
WikiSplits == [train |-> NUM_TRAIN_BATCHS, test |-> NUM_TEST_BATCHS]

\* ------------------------------------- training loops from scratch
\* the four cells with a training loop
Loops == {"torch_optimizer", "keras_optimizer", "metrics", "tracked_losses"}

\* the loops with train_acc_metric, val_acc_metric and a validation loop
HasMetrics(l) == l \in {"metrics", "tracked_losses"}

\* epochs = 3
epochs == 3

\* batch_size = 32
batch_size == 32

\* if step % 100 == 0
LOG_EVERY == 100

\* def get_model(): three Dense layers
get_model == <<"Dense", "Dense", "Dense">>

\* the model built with an ActivityRegularizationLayer after the first Dense
RegularizedModel == <<"Dense", "ActivityRegularizationLayer", "Dense", "Dense">>

\* the name model before the cell of a loop runs: unbound before the first
\* cell, the regularized model before the last one, else the previous model
PreviousModel(l) ==
    CASE l = "torch_optimizer" -> <<>>
      [] l = "tracked_losses" -> RegularizedModel
      [] OTHER -> get_model

\* the sizes of the training set: below, at and above one batch, and
\* one sample more than LOG_EVERY batches
TrainSizes == {1, 32, 33, 65, 3201}

\* the sizes of the validation set
ValSizes == {1, 33}

\* len(DataLoader(dataset, batch_size=batch_size)): the last batch may be short
NumBatches(n) == (n + batch_size - 1) \div batch_size

\* the number of samples of batch k (from 0) of a dataset of n samples
BatchLen(k, n) == Min(batch_size, n - k * batch_size)

\* an iterator that stops one batch early
HasNextSkipLast(it, n) == it + 1 < NumBatches(n)

\* the iterator of a DataLoader has another batch
HasNext(it, n) == it < NumBatches(n)

\* loss_fn(logits, targets): the value of the main loss, taken to be 1.0
MainLoss == One

\* the sum of the activations of a batch of len samples, taken to be len
ActivationSum(len) == len * One

\* ActivityRegularizationLayer.call: self.add_loss(1e-2 * torch.sum(inputs))
ActivityLoss(len) == Mul(One \div 100, ActivationSum(len))

\* model.losses after the forward pass of a batch of len samples: one
\* value per layer that calls add_loss
ModelLosses(m, len) ==
    LET layers == {i \in DOMAIN m : m[i] = "ActivityRegularizationLayer"}
    IN  [k \in 1..Cardinality(layers) |-> ActivityLoss(len)]

\* torch.sum(*args): with one tensor its sum; a second positional argument
\* is taken as dim, and a loss tensor is no dim: TypeError
TorchSum(args) ==
    IF Len(args) = 1 THEN [raised |-> "", value |-> args[1]]
    ELSE [raised |-> "TypeError", value |-> 0]

\* loss = loss_fn(targets, logits);
\* if model.losses: loss = loss + torch.sum(*model.losses)
TrackedLoss(m, len) ==
    IF ModelLosses(m, len) # <<>>
    THEN LET tracked == TorchSum(ModelLosses(m, len))
         IN  [raised |-> tracked.raised, value |-> Add(MainLoss, tracked.value)]
    ELSE [raised |-> "", value |-> MainLoss]

\* a zero_grad that leaves the gradients in place
ZeroGradKeep(g) == g

\* model.zero_grad(): no batch contributes to the gradients any more
ZeroGrad(g) == {}

\* loss.backward(): the gradients of batch b are added to the gradients
Backward(g, b) == g \cup {b}

\* a metric is the set of batches it has accumulated
UpdateState(metric, b) == metric \cup {b}

Result(metric) == metric

\* a reset_state that keeps what the metric accumulated
ResetStateKeep(metric) == metric

ResetState(metric) == {}

\* a name that is not bound to a model yet
NoModel == <<>>

\* the encoder objects in the graph of a model: its trainable parameters
Layers(m) == {m.paths[p] : p \in DOMAIN m.paths}

VARIABLES
    epc,          \* encoder call: the layer reached
    encoder,      \* encoder call: which of the two encoders is called
    backbone,     \* encoder call: the parameters of its backbone
    inputs,       \* encoder call: the sentence
    x,            \* encoder call: token ids and padding mask
    h,            \* encoder call: hidden states
    tokens,       \* encoder call: the divisor of the mean
    embedding,    \* encoder call: pooled embedding
    n_embedding,  \* encoder call: normalized embedding
    tpc,          \* triplet objective: the step reached
    tweights,     \* triplet objective: the parameters of the shared encoder
    loss_args,    \* triplet objective: the arguments TripletLoss was constructed with
    margin,       \* triplet objective: TripletLoss.margin
    triplets,     \* triplet objective: the batch of (anchor, positive, negative)
    y_true,       \* triplet objective: the labels of the batch
    y_pred,       \* triplet objective: the output of TripletSiamese
    losses,       \* triplet objective: the per-example losses
    loss,         \* triplet objective: the value TripletLoss.call returns
    rpc,          \* regression objective: the step reached
    rweights,     \* regression objective: the parameters of the shared encoder
    pairs,        \* regression objective: the examples of the batch
    sentences,    \* regression objective: the inputs of the batch
    targets,      \* regression objective: the rescaled labels of the batch
    cosine_similarity_scores,  \* regression objective: the output of RegressionSiamese
    mse,          \* regression objective: the value of MeanSquaredError
    dpc,          \* dataset preparation: the step reached
    z,            \* dataset preparation: an example of the STSB dataset
    mapped,       \* dataset preparation: the example after dataset.map
    parameters,   \* training: the backbone parameters of each encoder object
    roberta_regression_siamese,  \* training: the regression model
    roberta_triplet_siamese,     \* training: the triplet model
    rstep,        \* training: the batches of stsb_train the regression fit has consumed
    tstep,        \* training: the batches of wiki_train the triplet fit has consumed
    trained,      \* training: the model of the last train step
    used,         \* training: the parameters each path used in its forward pass
    train_loss,   \* training: the loss of the last train step
    wpc,          \* triplet dataset: the step reached
    wiki_split,   \* triplet dataset: "train" or "test"
    wiki_rows,    \* triplet dataset: the number of rows of the csv file
    wiki_batches, \* triplet dataset: the number of triplets of each batch delivered
    spc,          \* semantic search: the step reached
    search_weights,      \* semantic search: the parameters of the encoder
    search_sentences,    \* semantic search: the corpus
    query,        \* semantic search: the query
    printed,      \* semantic search: the lines printed, in order
    loop,         \* training loop: which of the four cells
    lpc,          \* training loop: the statement reached
    model,        \* training loop: the layers of the model
    num_samples,  \* training loop: the size of the training set
    val_samples,  \* training loop: the size of the validation set
    epoch,        \* training loop: the epoch
    train_it,     \* training loop: the batches train_dataloader has yielded this epoch
    step,         \* training loop: the index of the batch
    loop_loss,    \* training loop: the loss that is back-propagated
    grad,         \* training loop: the batches whose gradients the variables hold
    applied,      \* training loop: the batches whose gradients the last update used
    train_acc_metric,  \* training loop: the batches the metric has accumulated
    val_acc_metric,    \* training loop: the batches the metric has accumulated
    val_it,       \* training loop: the batches val_dataloader has yielded this epoch
    log,          \* training loop: the lines printed every LOG_EVERY batches
    reports,      \* training loop: the accuracies printed at the end of each epoch
    ops,          \* training loop: the operations of this iteration, in order
    work,         \* training loop: per batch of this epoch, its forward passes, backward passes and updates
    seen,         \* training loop: the samples processed in this epoch
    updates       \* training loop: the optimizer updates so far

encVars == <<epc, encoder, backbone, inputs, x, h, tokens, embedding, n_embedding>>

triVars == <<tpc, tweights, loss_args, margin, triplets, y_true, y_pred, losses, loss>>

regVars == <<rpc, rweights, pairs, sentences, targets, cosine_similarity_scores, mse>>

dataVars == <<dpc, z, mapped>>

trainVars == <<parameters, roberta_regression_siamese, roberta_triplet_siamese,
               rstep, tstep, trained, used, train_loss>>

wikiVars == <<wpc, wiki_split, wiki_rows, wiki_batches>>

searchVars == <<spc, search_weights, search_sentences, query, printed>>

loopVars == <<loop, lpc, model, num_samples, val_samples, epoch, train_it, step,
              loop_loss, grad, applied, train_acc_metric, val_acc_metric, val_it,
              log, reports, ops, work, seen, updates>>

vars == <<encVars, triVars, regVars, dataVars, trainVars, wikiVars, searchVars,
          loopVars>>

EncIdle ==
    /\ epc = "off" /\ encoder = "none" /\ backbone = <<>> /\ inputs = <<>>
    /\ x = <<>> /\ h = <<>> /\ tokens = 0 /\ embedding = <<>> /\ n_embedding = <<>>

EncInit ==
    /\ epc = "input"
    /\ encoder \in Encoders
    /\ backbone \in Weights
    /\ inputs \in Sentences
    /\ x = <<>> /\ h = <<>> /\ tokens = 0 /\ embedding = <<>> /\ n_embedding = <<>>

EncPreprocess ==
    /\ epc = "input"
    /\ x' = Preprocessor(inputs)
    /\ epc' = "preprocessed"
    /\ UNCHANGED <<encoder, backbone, inputs, h, tokens, embedding, n_embedding>>
    /\ UNCHANGED <<triVars, regVars, dataVars, trainVars, wikiVars, searchVars, loopVars>>

EncBackbone ==
    /\ epc = "preprocessed"
    /\ h' = Backbone(backbone, x)
    /\ epc' = "hidden"
    /\ UNCHANGED <<encoder, backbone, inputs, x, tokens, embedding, n_embedding>>
    /\ UNCHANGED <<triVars, regVars, dataVars, trainVars, wikiVars, searchVars, loopVars>>

EncPooling ==
    /\ epc = "hidden"
    /\ embedding' = GlobalAveragePooling1D(h, x.padding_mask)
    /\ tokens' = MaskSum(x.padding_mask)
    /\ epc' = IF encoder = "roberta_normal_encoder" THEN "pooled" ELSE "done"
    /\ UNCHANGED <<encoder, backbone, inputs, x, h, n_embedding>>
    /\ UNCHANGED <<triVars, regVars, dataVars, trainVars, wikiVars, searchVars, loopVars>>

EncNormalize ==
    /\ epc = "pooled"
    /\ n_embedding' = Normalize(embedding)
    /\ epc' = "done"
    /\ UNCHANGED <<encoder, backbone, inputs, x, h, tokens, embedding>>
    /\ UNCHANGED <<triVars, regVars, dataVars, trainVars, wikiVars, searchVars, loopVars>>

EncNext == EncPreprocess \/ EncBackbone \/ EncPooling \/ EncNormalize

TriIdle ==
    /\ tpc = "off" /\ tweights = <<>> /\ loss_args = <<>> /\ margin = 0 /\ triplets = <<>>
    /\ y_true = <<>> /\ y_pred = <<>> /\ losses = <<>> /\ loss = 0

\* roberta_triplet_siamese = TripletSiamese(roberta_encoder)
TriInit ==
    /\ tpc = "model"
    /\ tweights \in Checkpoints
    /\ loss_args = <<>> /\ margin = 0 /\ triplets = <<>>
    /\ y_true = <<>> /\ y_pred = <<>> /\ losses = <<>> /\ loss = 0

\* loss=TripletLoss(...)
TriCompile ==
    /\ tpc = "model"
    /\ \E arg \in LossArgs :
          /\ loss_args' = arg
          /\ margin' = TripletLossInit(arg)
    /\ tpc' = "compiled"
    /\ UNCHANGED <<tweights, triplets, y_true, y_pred, losses, loss>>
    /\ UNCHANGED <<encVars, regVars, dataVars, trainVars, wikiVars, searchVars, loopVars>>

\* the forward pass of one batch of prepare_wiki_data, labels 0
TriForward ==
    /\ tpc = "compiled"
    /\ \E batch \in Batches(Triplets) :
          /\ triplets' = batch
          /\ y_true' = [i \in DOMAIN batch |-> 0]
          /\ y_pred' = TripletSiamese(tweights, batch)
    /\ tpc' = "forward"
    /\ UNCHANGED <<tweights, loss_args, margin, losses, loss>>
    /\ UNCHANGED <<encVars, regVars, dataVars, trainVars, wikiVars, searchVars, loopVars>>

\* TripletLoss.call(y_true, y_pred)
TriLoss ==
    /\ tpc = "forward"
    /\ losses' = TripletLosses(margin, y_pred)
    /\ loss' = TripletLossCall(margin, y_true, y_pred)
    /\ tpc' = "loss"
    /\ UNCHANGED <<tweights, loss_args, margin, triplets, y_true, y_pred>>
    /\ UNCHANGED <<encVars, regVars, dataVars, trainVars, wikiVars, searchVars, loopVars>>

TriNext == TriCompile \/ TriForward \/ TriLoss

RegIdle ==
    /\ rpc = "off" /\ rweights = <<>> /\ pairs = <<>> /\ sentences = <<>>
    /\ targets = <<>> /\ cosine_similarity_scores = <<>> /\ mse = 0

\* roberta_regression_siamese = RegressionSiamese(roberta_normal_encoder)
RegInit ==
    /\ rpc = "model"
    /\ rweights \in Checkpoints
    /\ pairs = <<>> /\ sentences = <<>>
    /\ targets = <<>> /\ cosine_similarity_scores = <<>> /\ mse = 0

\* one batch of prepare_dataset(stsb_train, ...)
RegBatch ==
    /\ rpc = "model"
    /\ \E batch \in Batches(Pairs) :
          /\ pairs' = batch
          /\ sentences' = [i \in DOMAIN batch |-> PrepareExample(batch[i]).sentences]
          /\ targets' = [i \in DOMAIN batch |-> PrepareExample(batch[i]).target]
    /\ rpc' = "batch"
    /\ UNCHANGED <<rweights, cosine_similarity_scores, mse>>
    /\ UNCHANGED <<encVars, triVars, dataVars, trainVars, wikiVars, searchVars, loopVars>>

\* the forward pass of the batch
RegForward ==
    /\ rpc = "batch"
    /\ cosine_similarity_scores' = RegressionSiamese(rweights, sentences)
    /\ rpc' = "forward"
    /\ UNCHANGED <<rweights, pairs, sentences, targets, mse>>
    /\ UNCHANGED <<encVars, triVars, dataVars, trainVars, wikiVars, searchVars, loopVars>>

\* loss=keras.losses.MeanSquaredError()
RegLoss ==
    /\ rpc = "forward"
    /\ mse' = MeanSquaredError(targets, cosine_similarity_scores)
    /\ rpc' = "loss"
    /\ UNCHANGED <<rweights, pairs, sentences, targets, cosine_similarity_scores>>
    /\ UNCHANGED <<encVars, triVars, dataVars, trainVars, wikiVars, searchVars, loopVars>>

RegNext == RegBatch \/ RegForward \/ RegLoss

DataIdle == dpc = "off" /\ z = <<>> /\ mapped = <<>>

\* an example of stsb_train: two sentences and a label in [0, 5]
DataInit ==
    /\ dpc = "raw"
    /\ z \in [sentence1 : Corpus, sentence2 : Corpus, label : 0..MaxLabel]
    /\ mapped = <<>>

\* dataset.map(lambda z: ([sentence1, sentence2], [change_range(label)]))
DataMap ==
    /\ dpc = "raw"
    /\ mapped' = PrepareExample(z)
    /\ dpc' = "mapped"
    /\ UNCHANGED z
    /\ UNCHANGED <<encVars, triVars, regVars, trainVars, wikiVars, searchVars, loopVars>>

DataNext == DataMap

LoopIdle ==
    /\ loop = "none" /\ lpc = "off" /\ model = <<>> /\ num_samples = 0 /\ val_samples = 0
    /\ epoch = 0 /\ train_it = 0 /\ step = 0 /\ loop_loss = 0 /\ grad = {} /\ applied = {}
    /\ train_acc_metric = {} /\ val_acc_metric = {} /\ val_it = 0 /\ log = <<>>
    /\ reports = <<>> /\ ops = <<>> /\ work = <<>> /\ seen = 0 /\ updates = 0

\* before the cell of a loop runs: the dataloaders exist
LoopInit ==
    /\ loop \in Loops
    /\ lpc = "setup"
    /\ model = PreviousModel(loop)
    /\ num_samples \in TrainSizes
    /\ val_samples \in (IF HasMetrics(loop) THEN ValSizes ELSE {0})
    /\ epoch = 0 /\ train_it = 0 /\ step = 0 /\ loop_loss = 0 /\ grad = {} /\ applied = {}
    /\ train_acc_metric = {} /\ val_acc_metric = {} /\ val_it = 0 /\ log = <<>>
    /\ reports = <<>> /\ ops = <<>> /\ work = <<>> /\ seen = 0 /\ updates = 0

\* model = get_model(); optimizer = ...; loss_fn = ...;
\* train_acc_metric = ...; val_acc_metric = ...
LoopSetup ==
    /\ lpc = "setup"
    /\ model' = get_model
    /\ train_acc_metric' = {}
    /\ val_acc_metric' = {}
    /\ epoch' = 0
    /\ lpc' = "epoch"
    /\ UNCHANGED <<loop, num_samples, val_samples, train_it, step, loop_loss,
                   grad, applied, val_it, log, reports, ops, work, seen,
                   updates>>
    /\ UNCHANGED <<encVars, triVars, regVars, dataVars, trainVars, wikiVars,
                   searchVars>>

\* for epoch in range(epochs): a new iterator over train_dataloader
EpochStart ==
    /\ lpc = "epoch"
    /\ IF epoch < epochs
       THEN /\ train_it' = 0
            /\ work' = <<>>
            /\ seen' = 0
            /\ lpc' = "batch"
       ELSE /\ lpc' = "done"
            /\ UNCHANGED <<train_it, work, seen>>
    /\ UNCHANGED <<loop, model, num_samples, val_samples, epoch, step,
                   loop_loss, grad, applied, train_acc_metric, val_acc_metric,
                   val_it, log, reports, ops, updates>>
    /\ UNCHANGED <<encVars, triVars, regVars, dataVars, trainVars, wikiVars,
                   searchVars>>

\* for step, (inputs, targets) in enumerate(train_dataloader)
NextBatch ==
    /\ lpc = "batch"
    /\ IF HasNext(train_it, num_samples)
       THEN /\ step' = train_it
            /\ train_it' = train_it + 1
            /\ ops' = <<>>
            /\ work' = Append(work, [forward |-> 0, backward |-> 0, update |-> 0])
            /\ lpc' = "forward"
            /\ UNCHANGED epoch
       ELSE /\ lpc' = IF HasMetrics(loop) THEN "epoch_end" ELSE "epoch"
            /\ epoch' = IF HasMetrics(loop) THEN epoch ELSE epoch + 1
            /\ UNCHANGED <<step, train_it, ops, work>>
    /\ UNCHANGED <<loop, model, num_samples, val_samples, loop_loss, grad,
                   applied, train_acc_metric, val_acc_metric, val_it, log,
                   reports, seen, updates>>
    /\ UNCHANGED <<encVars, triVars, regVars, dataVars, trainVars, wikiVars,
                   searchVars>>

\* logits = model(inputs); loss = loss_fn(...), and in the last loop
\* if model.losses: loss = loss + torch.sum(*model.losses)
Forward ==
    /\ lpc = "forward"
    /\ loop_loss' = IF loop = "tracked_losses"
                    THEN TrackedLoss(model, BatchLen(step, num_samples)).value
                    ELSE MainLoss
    /\ ops' = Append(ops, "forward")
    /\ work' = [work EXCEPT ![step + 1].forward = @ + 1]
    /\ seen' = seen + BatchLen(step, num_samples)
    /\ lpc' = IF loop = "tracked_losses"
                 /\ TrackedLoss(model, BatchLen(step, num_samples)).raised # ""
              THEN "TypeError" ELSE "zero_grad"
    /\ UNCHANGED <<loop, model, num_samples, val_samples, epoch, train_it,
                   step, grad, applied, train_acc_metric, val_acc_metric,
                   val_it, log, reports, updates>>
    /\ UNCHANGED <<encVars, triVars, regVars, dataVars, trainVars, wikiVars,
                   searchVars>>

\* model.zero_grad()
ZeroGradStep ==
    /\ lpc = "zero_grad"
    /\ grad' = ZeroGrad(grad)
    /\ ops' = Append(ops, "zero_grad")
    /\ lpc' = "backward"
    /\ UNCHANGED <<loop, model, num_samples, val_samples, epoch, train_it,
                   step, loop_loss, applied, train_acc_metric, val_acc_metric,
                   val_it, log, reports, work, seen, updates>>
    /\ UNCHANGED <<encVars, triVars, regVars, dataVars, trainVars, wikiVars,
                   searchVars>>

\* loss.backward()
BackwardStep ==
    /\ lpc = "backward"
    /\ grad' = Backward(grad, <<epoch, step>>)
    /\ ops' = Append(ops, "backward")
    /\ work' = [work EXCEPT ![step + 1].backward = @ + 1]
    /\ lpc' = "update"
    /\ UNCHANGED <<loop, model, num_samples, val_samples, epoch, train_it,
                   step, loop_loss, applied, train_acc_metric, val_acc_metric,
                   val_it, log, reports, seen, updates>>
    /\ UNCHANGED <<encVars, triVars, regVars, dataVars, trainVars, wikiVars,
                   searchVars>>

\* optimizer.step() or optimizer.apply(gradients, trainable_weights)
OptimizerUpdate ==
    /\ lpc = "update"
    /\ applied' = grad
    /\ updates' = updates + 1
    /\ ops' = Append(ops, "update")
    /\ work' = [work EXCEPT ![step + 1].update = @ + 1]
    /\ lpc' = IF HasMetrics(loop) THEN "metric" ELSE "log"
    /\ UNCHANGED <<loop, model, num_samples, val_samples, epoch, train_it,
                   step, loop_loss, grad, train_acc_metric, val_acc_metric,
                   val_it, log, reports, seen>>
    /\ UNCHANGED <<encVars, triVars, regVars, dataVars, trainVars, wikiVars,
                   searchVars>>

\* train_acc_metric.update_state(targets, logits)
MetricUpdate ==
    /\ lpc = "metric"
    /\ train_acc_metric' = UpdateState(train_acc_metric, <<epoch, step>>)
    /\ lpc' = "log"
    /\ UNCHANGED <<loop, model, num_samples, val_samples, epoch, train_it,
                   step, loop_loss, grad, applied, val_acc_metric, val_it, log,
                   reports, ops, work, seen, updates>>
    /\ UNCHANGED <<encVars, triVars, regVars, dataVars, trainVars, wikiVars,
                   searchVars>>

\* if step % 100 == 0: print the loss and (step + 1) * batch_size;
\* processed is the number of samples the epoch has processed by then
LogStep ==
    /\ lpc = "log"
    /\ log' = IF step % LOG_EVERY = 0
              THEN Append(log, [epoch |-> epoch, step |-> step, loss |-> loop_loss,
                                seen_so_far |-> (step + 1) * batch_size,
                                processed |-> seen])
              ELSE log
    /\ lpc' = "batch"
    /\ UNCHANGED <<loop, model, num_samples, val_samples, epoch, train_it,
                   step, loop_loss, grad, applied, train_acc_metric,
                   val_acc_metric, val_it, reports, ops, work, seen, updates>>
    /\ UNCHANGED <<encVars, triVars, regVars, dataVars, trainVars, wikiVars,
                   searchVars>>

\* train_acc = train_acc_metric.result(); print;
\* train_acc_metric.reset_state()
EpochEnd ==
    /\ lpc = "epoch_end"
    /\ reports' = Append(reports, [epoch |-> epoch, metric |-> "train_acc",
                                   batches |-> Result(train_acc_metric)])
    /\ train_acc_metric' = ResetState(train_acc_metric)
    /\ val_it' = 0
    /\ lpc' = "val"
    /\ UNCHANGED <<loop, model, num_samples, val_samples, epoch, train_it,
                   step, loop_loss, grad, applied, val_acc_metric, log, ops,
                   work, seen, updates>>
    /\ UNCHANGED <<encVars, triVars, regVars, dataVars, trainVars, wikiVars,
                   searchVars>>

\* for x_batch_val, y_batch_val in val_dataloader:
\* val_logits = model(x_batch_val, training=False); val_acc_metric.update_state
ValBatch ==
    /\ lpc = "val"
    /\ IF HasNext(val_it, val_samples)
       THEN /\ val_acc_metric' = UpdateState(val_acc_metric, <<epoch, val_it>>)
            /\ val_it' = val_it + 1
            /\ lpc' = "val"
       ELSE /\ lpc' = "val_end"
            /\ UNCHANGED <<val_acc_metric, val_it>>
    /\ UNCHANGED <<loop, model, num_samples, val_samples, epoch, train_it,
                   step, loop_loss, grad, applied, train_acc_metric, log,
                   reports, ops, work, seen, updates>>
    /\ UNCHANGED <<encVars, triVars, regVars, dataVars, trainVars, wikiVars,
                   searchVars>>

\* val_acc = val_acc_metric.result(); val_acc_metric.reset_state(); print
ValEnd ==
    /\ lpc = "val_end"
    /\ reports' = Append(reports, [epoch |-> epoch, metric |-> "val_acc",
                                   batches |-> Result(val_acc_metric)])
    /\ val_acc_metric' = ResetState(val_acc_metric)
    /\ epoch' = epoch + 1
    /\ lpc' = "epoch"
    /\ UNCHANGED <<loop, model, num_samples, val_samples, train_it, step,
                   loop_loss, grad, applied, train_acc_metric, val_it, log,
                   ops, work, seen, updates>>
    /\ UNCHANGED <<encVars, triVars, regVars, dataVars, trainVars, wikiVars,
                   searchVars>>

LoopNext ==
    \/ LoopSetup
    \/ EpochStart
    \/ NextBatch
    \/ Forward
    \/ ZeroGradStep
    \/ BackwardStep
    \/ OptimizerUpdate
    \/ MetricUpdate
    \/ LogStep
    \/ EpochEnd
    \/ ValBatch
    \/ ValEnd

SearchIdle ==
    /\ spc = "off" /\ search_weights = <<>> /\ search_sentences = <<>>
    /\ query = <<>> /\ printed = <<>>

\* sentences = [...]; query = [...]; encoder = roberta_normal_encoder or
\* roberta_regression_siamese.get_encoder()
SearchInit ==
    /\ spc = "cell"
    /\ search_weights \in Checkpoints
    /\ search_sentences \in [1..SearchCorpusSize -> SearchSentences]
    /\ query \in [1..1 -> SearchSentences]
    /\ printed = <<>>

\* the cell of the semantic search: encode, multiply, print
Search ==
    /\ spc = "cell"
    /\ printed' = SearchPrint(SearchScores(search_weights, search_sentences, query))
    /\ spc' = "printed"
    /\ UNCHANGED <<search_weights, search_sentences, query>>
    /\ UNCHANGED <<encVars, triVars, regVars, dataVars, trainVars, wikiVars, loopVars>>

SearchNext == Search

WikiIdle == wpc = "off" /\ wiki_split = "none" /\ wiki_rows = 0 /\ wiki_batches = <<>>

\* wiki_train / wiki_test = make_csv_dataset(...) of a file of some size
WikiInit ==
    /\ wpc = "csv"
    /\ wiki_split \in DOMAIN WikiSplits
    /\ wiki_rows \in WikiSizes
    /\ wiki_batches = <<>>

\* wiki_train = prepare_wiki_data(wiki_train, NUM_TRAIN_BATCHS)
\* wiki_test = prepare_wiki_data(wiki_test, NUM_TEST_BATCHS)
WikiPrepare ==
    /\ wpc = "csv"
    /\ wiki_batches' =
          LET out == prepare_wiki_data(WikiCsv(wiki_rows), WikiSplits[wiki_split])
          IN  [k \in DOMAIN out |-> Len(out[k])]
    /\ wpc' = "prepared"
    /\ UNCHANGED <<wiki_split, wiki_rows>>
    /\ UNCHANGED <<encVars, triVars, regVars, dataVars, trainVars, searchVars, loopVars>>

WikiNext == WikiPrepare

TrainIdle ==
    /\ parameters = <<>>
    /\ roberta_regression_siamese = NoModel /\ roberta_triplet_siamese = NoModel
    /\ rstep = 0 /\ tstep = 0 /\ trained = "none" /\ used = <<>> /\ train_loss = 0

\* both encoders built from the preset; no Siamese model yet
TrainInit ==
    /\ parameters = [e \in Encoders |-> Pretrained]
    /\ roberta_regression_siamese = NoModel /\ roberta_triplet_siamese = NoModel
    /\ rstep = 0 /\ tstep = 0 /\ trained = "none" /\ used = <<>> /\ train_loss = 0

\* roberta_regression_siamese = RegressionSiamese(roberta_normal_encoder)
BuildRegressionSiamese ==
    /\ roberta_regression_siamese = NoModel
    /\ roberta_regression_siamese' = RegressionSiameseInit("roberta_normal_encoder")
    /\ UNCHANGED <<parameters, roberta_triplet_siamese, rstep, tstep, trained,
                   used, train_loss>>
    /\ UNCHANGED <<encVars, triVars, regVars, dataVars, wikiVars, searchVars, loopVars>>

\* roberta_triplet_siamese = TripletSiamese(roberta_encoder)
BuildTripletSiamese ==
    /\ roberta_triplet_siamese = NoModel
    /\ roberta_triplet_siamese' = TripletSiameseInit("roberta_encoder")
    /\ UNCHANGED <<parameters, roberta_regression_siamese, rstep, tstep, trained,
                   used, train_loss>>
    /\ UNCHANGED <<encVars, triVars, regVars, dataVars, wikiVars, searchVars, loopVars>>

\* the backbone objects in the graph of model m: its trainable variables
TrainableBackbones(m) == {BackboneOf(l) : l \in Layers(m)}

\* the optimizer step: new values for the parameters of the backbone objects
\* in the graph of the model, seen through every encoder that runs one of
\* them; all other objects untouched
ApplyGradients(m, new) ==
    [e \in Encoders |->
        IF BackboneOf(e) \in TrainableBackbones(m)
        THEN new[CHOOSE l \in Layers(m) : BackboneOf(l) = BackboneOf(e)]
        ELSE parameters[e]]

\* one train step of roberta_regression_siamese.fit(stsb_train, epochs=1):
\* forward pass of the next batch, MeanSquaredError, optimizer step
FitRegressionStep ==
    /\ roberta_regression_siamese # NoModel
    /\ rstep < Len(stsb_train)
    /\ LET m == roberta_regression_siamese
           batch == stsb_train[rstep + 1]
           wu == parameters[m.paths[1]]
           wv == parameters[m.paths[2]]
       IN  /\ used' = <<wu, wv>>
           /\ train_loss' =
                 MeanSquaredError([i \in DOMAIN batch |-> batch[i].target],
                     RegressionScores(wu, wv, [i \in DOMAIN batch |-> batch[i].sentences]))
           /\ \E new \in [Layers(m) -> Checkpoints] :
                 parameters' = ApplyGradients(m, new)
    /\ rstep' = rstep + 1
    /\ trained' = "roberta_regression_siamese"
    /\ UNCHANGED <<roberta_regression_siamese, roberta_triplet_siamese, tstep>>
    /\ UNCHANGED <<encVars, triVars, regVars, dataVars, wikiVars, searchVars, loopVars>>

\* one train step of roberta_triplet_siamese.fit(wiki_train, epochs=1):
\* forward pass of the next batch, TripletLoss(), optimizer step
FitTripletStep ==
    /\ roberta_triplet_siamese # NoModel
    /\ tstep < Len(wiki_train)
    /\ LET m == roberta_triplet_siamese
           batch == wiki_train[tstep + 1]
           wa == parameters[m.paths[1]]
           wp == parameters[m.paths[2]]
           wn == parameters[m.paths[3]]
       IN  /\ used' = <<wa, wp, wn>>
           /\ train_loss' =
                 TripletLossCall(DefaultMargin, [i \in DOMAIN batch |-> batch[i].label],
                     TripletDistances(wa, wp, wn, [i \in DOMAIN batch |-> batch[i].triplet]))
           /\ \E new \in [Layers(m) -> Checkpoints] :
                 parameters' = ApplyGradients(m, new)
    /\ tstep' = tstep + 1
    /\ trained' = "roberta_triplet_siamese"
    /\ UNCHANGED <<roberta_regression_siamese, roberta_triplet_siamese, rstep>>
    /\ UNCHANGED <<encVars, triVars, regVars, dataVars, wikiVars, searchVars, loopVars>>

Next ==
    \/ BuildRegressionSiamese
    \/ BuildTripletSiamese
    \/ FitRegressionStep
    \/ FitTripletStep

\* the notebook: both encoders loaded, the two Siamese models built and
\* trained; the cells of the two models may be run in either order
Init == TrainInit /\ EncIdle /\ TriIdle /\ RegIdle /\ DataIdle /\ WikiIdle /\ SearchIdle /\ LoopIdle

Spec == Init /\ [][Next]_vars

\* the preparation of one split of the triplet dataset
InitWiki == WikiInit /\ EncIdle /\ TriIdle /\ RegIdle /\ DataIdle /\ TrainIdle /\ SearchIdle /\ LoopIdle

SpecWiki == InitWiki /\ [][WikiNext]_vars

\* one of the four training loops on a training and a validation set
InitLoop ==
    /\ LoopInit /\ EncIdle /\ TriIdle /\ RegIdle /\ DataIdle /\ TrainIdle
    /\ WikiIdle /\ SearchIdle

SpecLoop == InitLoop /\ [][LoopNext]_vars

\* the loop runs as long as it has a next statement
SpecLoopFair == SpecLoop /\ WF_vars(LoopNext)

\* a semantic search with an encoder
InitSearch ==
    /\ SearchInit /\ EncIdle /\ TriIdle /\ RegIdle /\ DataIdle /\ TrainIdle
    /\ WikiIdle /\ LoopIdle

SpecSearch == InitSearch /\ [][SearchNext]_vars

\* a call of one of the two encoders on one sentence
InitEnc == EncInit /\ TriIdle /\ RegIdle /\ DataIdle /\ TrainIdle /\ WikiIdle /\ SearchIdle /\ LoopIdle

\* the regression model and its loss on one batch
InitReg == RegInit /\ EncIdle /\ TriIdle /\ DataIdle /\ TrainIdle /\ WikiIdle /\ SearchIdle /\ LoopIdle

SpecReg == InitReg /\ [][RegNext]_vars

\* the preparation of one example of the similarity dataset
InitData == DataInit /\ EncIdle /\ TriIdle /\ RegIdle /\ TrainIdle /\ WikiIdle /\ SearchIdle /\ LoopIdle

SpecData == InitData /\ [][DataNext]_vars

SpecEnc == InitEnc /\ [][EncNext]_vars

\* the triplet model and its loss on one batch
InitTri == TriInit /\ EncIdle /\ RegIdle /\ DataIdle /\ TrainIdle /\ WikiIdle /\ SearchIdle /\ LoopIdle

SpecTri == InitTri /\ [][TriNext]_vars


\* ---------------------------------------------- claims on the encoder
RECURSIVE SumOver(_, _)
SumOver(S, f) ==
    IF S = {} THEN 0
    ELSE LET p == CHOOSE q \in S : TRUE
         IN  f[p] + SumOver(S \ {p}, f)

SetSum(S, f, d) == SumOver(S, [p \in S |-> f[p][d]])

NonPadded == {p \in Positions : x.padding_mask[p]}

Padded == Positions \ NonPadded

EncPooled == epc \in {"pooled", "done"}

\* C6: the pooled embedding of a sentence with k non-padded tokens is the
\* arithmetic mean (rounded down to the grid) of exactly those k hidden
\* vectors, and any hidden states that agree with h on the non-padded
\* positions, whatever they hold on the padded ones, pool to the same embedding.
C6_MeanPoolingExcludesPadding ==
    EncPooled =>
        LET k == Cardinality(NonPadded)
        IN  /\ k >= 1
            /\ \A d \in Dims :
                  /\ embedding[d] * k <= SetSum(NonPadded, h, d)
                  /\ SetSum(NonPadded, h, d) < (embedding[d] + 1) * k
            /\ \A pad \in [Padded -> Vec] :
                  LET h2 == [p \in Positions |-> IF p \in Padded THEN pad[p] ELSE h[p]]
                  IN  GlobalAveragePooling1D(h2, x.padding_mask) = embedding

\* a pooled sentence with padding whose content would have changed the mean
C6_Witness ==
    /\ EncPooled
    /\ Padded # {}
    /\ embedding # PoolingNoMask(h, x.padding_mask)

\* C7: neither encoder divides by a token count of zero or emits an
\* embedding computed from zero tokens: the preprocessor always packs
\* <s> and </s>, so the mask of every sentence, the empty one included,
\* has non-padded positions when the mean is taken.
C7_NoZeroTokenMean ==
    EncPooled =>
        /\ tokens > 0
        /\ NonPadded # {}
        /\ \A d \in Dims : ~IsNaN(embedding[d])

\* the empty sentence has been pooled, by either encoder
C7_Witness == EncPooled /\ inputs = <<>> /\ tokens = 2 * One

\* the L2 norm of a vector, rounded down to the grid
Norm(a) == Sqrt(SumSq(a))

Abs(a) == IF a < 0 THEN 0 - a ELSE a

Max(a, b) == IF a >= b THEN a ELSE b

SqDist(a, b) == SumOver(Dims, [d \in Dims |-> (a[d] - b[d]) * (a[d] - b[d])])

\* d is the Euclidean distance between a and b, rounded down to the grid
IsEuclidean(d, a, b) ==
    /\ d >= 0
    /\ d * d <= SqDist(a, b)
    /\ SqDist(a, b) < (d + 1) * (d + 1)

TriIndices == DOMAIN triplets

d_pos(i) == y_pred[1][i]

d_neg(i) == y_pred[2][i]

\* C1: TripletSiamese followed by TripletLoss yields the mean over the batch
\* of max(d_pos - d_neg + margin, 0), d_pos the Euclidean distance between the
\* anchor and positive embeddings, d_neg between the anchor and negative
\* embeddings, read back in the order the model stacked them; the margin is
\* 1 when TripletLoss is constructed without arguments.
C1_TripletLossIsHingeMean ==
    /\ tpc # "off" /\ tpc # "model" /\ ~loss_args.given => margin = One
    /\ tpc = "loss" =>
        LET B == Len(triplets)
            E(s) == RobertaEncoder(tweights, s)
            contribution == [i \in TriIndices |-> Max(d_pos(i) - d_neg(i) + margin, 0)]
        IN  /\ Len(y_pred) = 2 /\ Len(y_pred[1]) = B /\ Len(y_pred[2]) = B
            /\ \A i \in TriIndices :
                  /\ IsEuclidean(d_pos(i), E(triplets[i].anchor), E(triplets[i].positive))
                  /\ IsEuclidean(d_neg(i), E(triplets[i].anchor), E(triplets[i].negative))
                  /\ losses[i] = contribution[i]
            /\ loss * B <= SumOver(TriIndices, contribution)
            /\ SumOver(TriIndices, contribution) < (loss + 1) * B

\* a batch of two triplets under the default margin: one with the positive
\* nearer than the negative, one with the positive farther
C1_Witness ==
    /\ tpc = "loss" /\ ~loss_args.given /\ Len(triplets) = 2
    /\ d_pos(1) < d_neg(1) /\ d_pos(2) > d_neg(2)
    /\ losses[1] < margin /\ losses[2] > margin /\ loss > 0

\* C4: the triplet loss is never negative: each per-example contribution
\* and the returned batch mean are >= 0, whatever the distances and the margin.
C4_TripletLossNonNegative ==
    tpc = "loss" => /\ \A i \in TriIndices : losses[i] >= 0
                    /\ loss >= 0

\* a negative hinge argument has been clamped
C4_Witness ==
    /\ tpc = "loss"
    /\ \E i \in TriIndices : d_pos(i) - d_neg(i) + margin < 0 /\ losses[i] = 0

\* C5 as claimed: the contribution is 0 whenever d_pos < d_neg - margin and
\* is margin whenever d_pos = d_neg, for every margin TripletLoss accepts.
C5_Original ==
    tpc = "loss" =>
        \A i \in TriIndices :
            /\ d_pos(i) < d_neg(i) - margin => losses[i] = 0
            /\ d_pos(i) = d_neg(i) => losses[i] = margin

\* C5 amended: the contribution is 0 whenever d_pos < d_neg - margin, and
\* whenever d_pos = d_neg it is max(margin, 0): the margin when the margin
\* is >= 0, and 0 when the margin is negative.
C5_HingeCases ==
    tpc = "loss" =>
        \A i \in TriIndices :
            /\ d_pos(i) < d_neg(i) - margin => losses[i] = 0
            /\ d_pos(i) = d_neg(i) => losses[i] = Max(margin, 0)
            /\ d_pos(i) = d_neg(i) /\ margin >= 0 => losses[i] = margin

\* one example already satisfied under a positive margin, one with equal distances
C5_Witness ==
    /\ tpc = "loss" /\ margin > 0 /\ Len(triplets) = 2
    /\ d_pos(1) < d_neg(1) - margin /\ losses[1] = 0
    /\ d_pos(2) = d_neg(2) /\ losses[2] = margin

\* C11: when the anchor and the positive of a triplet are the same sentence
\* the shared encoder gives them the same embedding, d_pos is 0, and the
\* loss of that example is max(margin - d_neg, 0).
C11_AnchorIsPositive ==
    tpc = "loss" =>
        \A i \in TriIndices :
            triplets[i].anchor = triplets[i].positive =>
                /\ RobertaEncoder(tweights, triplets[i].anchor)
                      = RobertaEncoder(tweights, triplets[i].positive)
                /\ d_pos(i) = 0
                /\ losses[i] = Max(margin - d_neg(i), 0)

\* a triplet whose anchor is its positive and differs from its negative,
\* with a loss strictly between 0 and the margin, next to one whose three
\* sentences are the same, with the margin as its loss
C11_Witness ==
    /\ tpc = "loss" /\ Len(triplets) = 2
    /\ \A i \in TriIndices : triplets[i].anchor = triplets[i].positive
    /\ triplets[1].anchor # triplets[1].negative
    /\ d_pos(1) = 0 /\ d_neg(1) > 0
    /\ losses[1] > 0 /\ losses[1] < margin
    /\ triplets[2].anchor = triplets[2].negative
    /\ d_neg(2) = 0 /\ losses[2] = margin

\* the label tensors a batch may carry
LabelTensors == [TriIndices -> {0 - One, 0, One}]

\* C12: the triplet loss does not depend on y_true: for every label tensor
\* and the same y_pred, TripletLoss.call returns the value it returned for
\* the constant 0 labels of prepare_wiki_data.
C12_LabelsIgnored ==
    tpc = "loss" =>
        /\ \A i \in TriIndices : y_true[i] = 0
        /\ \A labels \in LabelTensors :
              TripletLossCall(margin, labels, y_pred) = loss

\* a batch of two examples with a positive loss under the zero labels
C12_Witness ==
    /\ tpc = "loss" /\ Len(triplets) = 2
    /\ y_true = <<0, 0>>
    /\ loss > 0
    /\ TripletLossCall(margin, <<One, 0 - One>>, y_pred) = loss

\* the number of triplets prepare_wiki_data has delivered: the positions
\* <<batch, place in the batch>> that hold a triplet
WikiDelivered ==
    Cardinality(UNION {{k} \X (1..wiki_batches[k]) : k \in DOMAIN wiki_batches})

\* C13 as claimed: the triplet pipeline uses only 1200 triplets for training
\* and 300 for testing: from a file with at least that many rows,
\* prepare_wiki_data delivers 1200 triplets for wiki_train and 300 for
\* wiki_test.
C13_TripletCounts ==
    wpc = "prepared" =>
        /\ wiki_split = "train" /\ wiki_rows >= 1200 => WikiDelivered = 1200
        /\ wiki_split = "test" /\ wiki_rows >= 300 => WikiDelivered = 300

\* --------------------------------- claims on the regression objective
RegIndices == DOMAIN pairs

u(i) == RobertaNormalEncoder(rweights, pairs[i].sentence1)

v(i) == RobertaNormalEncoder(rweights, pairs[i].sentence2)

\* the examples of the batch with sentence1 and sentence2 exchanged
Swapped == [i \in RegIndices |-> <<sentences[i][2], sentences[i][1]>>]

\* C2 as claimed: for a batch of B pairs the prediction of the model for
\* example i is dot(u_i, v_i) of its own two embeddings, and the loss is the
\* mean squared error between these B predictions and the B rescaled targets.
C2_PerExamplePrediction ==
    rpc = "loss" =>
        /\ \A i \in RegIndices : cosine_similarity_scores[i] = <<Dot(u(i), v(i))>>
        /\ mse = ReduceMean([i \in RegIndices |->
                    SquaredDifference(Dot(u(i), v(i)), targets[i][1])])

\* C3 as claimed: exchanging sentence1 and sentence2 in every pair leaves
\* the output of RegressionSiamese, and hence the loss, unchanged.
C3_SwapSymmetric ==
    rpc = "loss" =>
        /\ RegressionSiamese(rweights, Swapped) = cosine_similarity_scores
        /\ MeanSquaredError(targets, RegressionSiamese(rweights, Swapped)) = mse

\* the pairs of the batch whose two sentences are identical
Identical == {i \in RegIndices : pairs[i].sentence1 = pairs[i].sentence2}

\* the pooled embedding of the sentence of an identical pair
Pooled(i) == RobertaEncoder(rweights, pairs[i].sentence1)

\* the score the model gives pair i with itself
SelfScore(i) == cosine_similarity_scores[i][i]

\* the rounding error of a normalization followed by a dot product: 0.04
RoundingError == Scale \div 25

\* C10 as claimed: when the two sentences of a pair are identical the
\* predicted similarity of that pair is exactly 1.0.
C10_Original ==
    rpc \in {"forward", "loss"} => \A i \in Identical : SelfScore(i) = One

\* C10 amended: when the two sentences of a pair are identical and their
\* pooled embedding is not zero, the score of the pair with itself is 1.0
\* up to the rounding error of the normalization and the dot product;
\* when the pooled embedding is zero the score is not a number.
C10_SelfSimilarity ==
    rpc \in {"forward", "loss"} =>
        \A i \in Identical :
            IF \A d \in Dims : Pooled(i)[d] = 0
            THEN IsNaN(SelfScore(i))
            ELSE /\ ~IsNaN(SelfScore(i))
                 /\ SelfScore(i) - One <= RoundingError
                 /\ One - SelfScore(i) <= RoundingError

\* a batch of two identical pairs with nonzero embeddings, one scored
\* exactly 1.0 and one scored 1.0 only up to rounding
C10_Witness ==
    /\ rpc = "loss" /\ Identical = {1, 2}
    /\ \A i \in Identical : \E d \in Dims : Pooled(i)[d] # 0
    /\ SelfScore(1) = One /\ SelfScore(2) # One

\* ------------------------------------------ claims on the training
\* every path of model m calls the encoder object given to its constructor,
\* get_encoder() returns that object, and its parameters are the ones
\* every path of the model uses
SharesEncoder(m, given) ==
    /\ get_encoder(m) = given
    /\ \A p \in DOMAIN m.paths :
          /\ m.paths[p] = given
          /\ parameters[get_encoder(m)] = parameters[m.paths[p]]

\* C8: RegressionSiamese passes both sentences, and TripletSiamese passes
\* anchor, positive and negative, through the one encoder object given to
\* the constructor, and get_encoder() returns that object, so after any
\* number of train steps the encoder obtained from get_encoder() carries
\* the parameters used on every path of the model, and every path of a
\* train step used the same parameters.
C8_SharedEncoder ==
    /\ roberta_regression_siamese # NoModel =>
          SharesEncoder(roberta_regression_siamese, "roberta_normal_encoder")
    /\ roberta_triplet_siamese # NoModel =>
          SharesEncoder(roberta_triplet_siamese, "roberta_encoder")
    /\ trained # "none" => \A p \in DOMAIN used : used[p] = used[1]

\* both models trained to the end of their datasets, the regression model
\* last, and the two encoders have left the preset in different directions
C8_Witness ==
    /\ roberta_regression_siamese # NoModel /\ roberta_triplet_siamese # NoModel
    /\ rstep = Len(stsb_train) /\ rstep >= 2 /\ tstep = Len(wiki_train)
    /\ trained = "roberta_regression_siamese"
    /\ used[1] # Pretrained
    /\ parameters["roberta_normal_encoder"] # Pretrained
    /\ parameters["roberta_encoder"] # Pretrained
    /\ parameters["roberta_normal_encoder"] # parameters["roberta_encoder"]

\* a train step of the regression model leaves roberta_encoder as it was,
\* a train step of the triplet model leaves roberta_normal_encoder as it was
FrameOfTrainStep ==
    /\ FitRegressionStep =>
          parameters'["roberta_encoder"] = parameters["roberta_encoder"]
    /\ FitTripletStep =>
          parameters'["roberta_normal_encoder"] = parameters["roberta_normal_encoder"]

\* C21: the regression and the triplet pipeline are independent:
\* roberta_normal_encoder and roberta_encoder are built from separately
\* loaded backbone instances, so every train step of
\* roberta_regression_siamese, hence any sequence of them, leaves the
\* weights of roberta_encoder unchanged, and every train step of
\* roberta_triplet_siamese leaves the weights of roberta_normal_encoder
\* unchanged.
C21_IndependentPipelines ==
    /\ BackboneOf("roberta_normal_encoder") # BackboneOf("roberta_encoder")
    /\ [][FrameOfTrainStep]_vars

\* both models built, the regression model trained to the end of its
\* dataset and away from the preset, the triplet model not trained yet and
\* roberta_encoder still as loaded
C21_Witness ==
    /\ roberta_regression_siamese # NoModel /\ roberta_triplet_siamese # NoModel
    /\ rstep = Len(stsb_train) /\ rstep >= 2 /\ tstep = 0
    /\ trained = "roberta_regression_siamese"
    /\ parameters["roberta_normal_encoder"] # Pretrained
    /\ parameters["roberta_encoder"] = Pretrained

\* --------------------------------- claims on the semantic search
\* C18 as claimed: the semantic search outputs the corpus items in order of
\* non-increasing similarity to the query.
C18_RankedBySimilarity ==
    spc = "printed" =>
        \A i, j \in DOMAIN printed : i < j => printed[i].sim >= printed[j].sim

\* ----------------------------------- claims on the training loops
\* the statements of one iteration, from the forward pass to the log
InIteration == lpc \in {"zero_grad", "backward", "update", "metric", "log"}

IterationOrder == <<"forward", "zero_grad", "backward", "update">>

\* C14: in every iteration of every training loop the steps occur in the
\* order forward pass, model.zero_grad(), loss.backward(), optimizer update:
\* the gradients are cleared before the backward pass of the same step, the
\* update comes after it, and no update uses gradients of an earlier batch.
C14_StepOrder ==
    /\ loop \in Loops => ops = SubSeq(IterationOrder, 1, Len(ops))
    /\ lpc = "backward" => grad = {}
    /\ lpc = "update" => grad = {<<epoch, step>>}
    /\ lpc \in {"metric", "log"} => ops = IterationOrder /\ applied = {<<epoch, step>>}
    /\ loop \in Loops => Cardinality(applied) <= 1

\* an update of a later batch of a later epoch, after earlier backward passes
C14_Witness ==
    /\ lpc = "log" /\ epoch >= 1 /\ step >= 1
    /\ ops = IterationOrder
    /\ applied = {<<epoch, step>>}
    /\ updates > NumBatches(num_samples)

\* C15 as claimed: in the loop that handles the losses tracked by the
\* model, the loss that is back-propagated is the main loss plus the sum of
\* the values in model.losses of that forward pass, and the loss added by
\* the ActivityRegularizationLayer is part of that sum.
C15_TrackedLossesAdded ==
    loop = "tracked_losses" /\ InIteration =>
        LET len == BatchLen(step, num_samples)
        IN  /\ \E i \in DOMAIN model : model[i] = "ActivityRegularizationLayer"
            /\ loop_loss = MainLoss + ActivityLoss(len)

\* the batches of a dataset of n samples in epoch e
EpochBatches(e, n) == {<<e, k>> : k \in 0..(NumBatches(n) - 1)}

\* C16: each metric is updated once after every batch and reset at the end
\* of every epoch: the training accuracy printed for epoch e is computed
\* from exactly the training batches of epoch e, the validation accuracy
\* from exactly the validation batches of epoch e, and no batch of an
\* earlier epoch is held by a metric in a later epoch.
C16_MetricsPerEpoch ==
    /\ \A i \in DOMAIN reports :
          reports[i].batches =
              EpochBatches(reports[i].epoch,
                           IF reports[i].metric = "train_acc" THEN num_samples
                                                              ELSE val_samples)
    /\ \A b \in train_acc_metric \cup val_acc_metric : b[1] = epoch
    /\ HasMetrics(loop) /\ lpc = "log" =>
          train_acc_metric = {<<epoch, k>> : k \in 0..step}
    /\ lpc = "val" => val_acc_metric = {<<epoch, k>> : k \in 0..(val_it - 1)}

\* all epochs reported, each from several training and validation batches
C16_Witness ==
    /\ lpc = "done" /\ HasMetrics(loop)
    /\ NumBatches(num_samples) > 1 /\ NumBatches(val_samples) > 1
    /\ Len(reports) = 2 * epochs
    /\ reports[2 * epochs - 1].batches = EpochBatches(epochs - 1, num_samples)
    /\ reports[2 * epochs].batches = EpochBatches(epochs - 1, val_samples)

\* the steps of the current epoch that have passed the log statement
Logged == {k \in 0..(train_it - 1) : k < step \/ lpc \in {"batch", "epoch", "epoch_end"}}

\* C19 as claimed: the loops log exactly at the steps whose index is a
\* multiple of 100, and the printed (step + 1) * batch_size equals the
\* number of samples processed in the epoch up to and including that step,
\* also when the last batch is smaller than batch_size.
C19_SeenSoFar ==
    /\ \A i \in DOMAIN log :
          /\ log[i].step % 100 = 0
          /\ log[i].seen_so_far = log[i].processed
    /\ lpc \in {"batch", "forward", "zero_grad", "backward", "update", "metric", "log"} =>
          \A k \in Logged :
              k % 100 = 0 => \E i \in DOMAIN log : log[i].epoch = epoch /\ log[i].step = k

\* the batches of the current epoch that have had their update
Updated == {k \in DOMAIN work : work[k].update = 1}

Complete(w) == w = [forward |-> 1, backward |-> 1, update |-> 1]

\* every batch of the epoch so far has had one forward pass, one backward
\* pass and one update, the current one at most one of each; the epoch ends
\* with all its batches done, a new epoch starts after the validation of
\* the one before, and the loop ends after epochs * N updates
ExactlyOnce ==
    /\ \A k \in DOMAIN work :
          /\ work[k].forward <= 1 /\ work[k].backward <= 1 /\ work[k].update <= 1
          /\ k < Len(work) => Complete(work[k])
    /\ lpc \in {"batch", "epoch_end", "val", "val_end", "done"} =>
          \A k \in DOMAIN work : Complete(work[k])
    /\ lpc \in {"epoch_end", "val", "val_end"} => Len(work) = NumBatches(num_samples)
    /\ lpc = "epoch" /\ epoch > 0 => Len(work) = NumBatches(num_samples)
    /\ lpc \in {"batch", "forward", "zero_grad", "backward", "update", "metric", "log"} =>
          /\ updates = epoch * NumBatches(num_samples) + Cardinality(Updated)
          /\ HasMetrics(loop) => Len(reports) = 2 * epoch
    /\ lpc = "val" => val_it <= NumBatches(val_samples)
    /\ lpc = "done" =>
          /\ epoch = epochs
          /\ updates = epochs * NumBatches(num_samples)

\* C20: for a finite dataloader of N batches each training loop terminates
\* after exactly epochs * N optimizer updates: every batch of every epoch
\* gets one forward pass, one backward pass and one update, none is skipped
\* or processed twice, and epoch e + 1 starts only after the batches and
\* the validation loop of epoch e.
C20_TerminatesExactlyOnce == <>(lpc = "done") /\ []ExactlyOnce

\* a loop with validation has ended after epochs * N updates, N > 1
C20_Witness ==
    /\ lpc = "done" /\ HasMetrics(loop)
    /\ NumBatches(num_samples) > 1
    /\ updates = epochs * NumBatches(num_samples)
    /\ Len(reports) = 2 * epochs

\* ------------------------------- claims on the dataset preparation
\* C9: change_range maps label 0 to -1, label 2.5 to 0 and label 5 to 1, and
\* for every label in [0, 5] the rescaled target is label / 2.5 - 1 (rounded
\* down to the grid) and lies in [-1, 1].
C9_ChangeRange ==
    dpc = "mapped" =>
        LET t == mapped.target[1]
        IN  /\ z.label = 0 => t = 0 - One
            /\ z.label = TwoAndHalf => t = 0
            /\ z.label = MaxLabel => t = One
            /\ 2 * z.label - 5 * One >= 5 * t
            /\ 2 * z.label - 5 * One < 5 * (t + 1)
            /\ 0 - One <= t /\ t <= One

\* the three named labels have been mapped
C9_Witness ==
    /\ dpc = "mapped"
    /\ z.label \in {0, TwoAndHalf, MaxLabel}
    /\ mapped.target[1] \in {0 - One, 0, One}
    /\ mapped.sentences = <<z.sentence1, z.sentence2>>

====
